---- MODULE Spec2Model ----
(***************************************************************************)
(* Model of the HITMail static scraper (src/scraper.py): main() fetches    *)
(* one page, extracts episode records from it (text-pattern pass, card     *)
(* fallback, title deduplication), extracts navigation items and saves the *)
(* results.                                                                *)
(*                                                                         *)
(* Text is modelled as a sequence of words; a page as the text nodes, card *)
(* matches and navigation links that BeautifulSoup would return for it.    *)
(***************************************************************************)
EXTENDS Integers, Sequences, FiniteSets, TLC

\* ------------------------------------------------------------------ bounds
MaxTextNodes == 3
MaxCards == 1
MaxTargets == 3

\* ------------------------------------------------------- program constants
MinNodeLen == 5
MinTextLen == 20
MinTitleLen == 10
MinChunkLen == 5
MaxTitleChunks == 3
ParentLevels == 3
Method2Threshold == 3
CardLimit == 10
NavLimit == 10
RawTextLimit == 200

None == [tag |-> "None"]

ContainerTags == {"div", "article", "li", "section", "a"}

card_selectors == <<".video-card", ".episode-card", ".card", ".item", ".post", ".content-item">>

\* ------------------------------------------------------------------- text
Words == {"Episode", "1", "2", "26:00", "9:59", "1HrAgo", "Watch", "Trailer"}

WordLen(w) ==
    CASE w = "Episode" -> 7
      [] w = "1"       -> 1
      [] w = "2"       -> 1
      [] w = "26:00"   -> 5
      [] w = "9:59"    -> 4
      [] w = "1HrAgo"  -> 6
      [] w = "Watch"   -> 5
      [] w = "Trailer" -> 7

RECURSIVE TextLen(_)
\* len() of the words joined by single spaces
TextLen(ws) ==
    IF ws = <<>> THEN 0
    ELSE IF Len(ws) = 1 THEN WordLen(ws[1])
    ELSE WordLen(ws[1]) + 1 + TextLen(Tail(ws))

\* re (\d{1,2}:\d{2})
IsDuration(w) == w \in {"26:00", "9:59"}
\* re (\d+\s*(Hr|Hour|Min|Minute|Day|Week)\s*Ago)
IsAgo(w) == w \in {"1HrAgo"}

RECURSIVE FirstMatch(_, _)
\* re.search(...).group(1), or "" when nothing matches
FirstMatch(ws, kind) ==
    IF ws = <<>> THEN ""
    ELSE IF (kind = "duration" /\ IsDuration(ws[1])) \/ (kind = "ago" /\ IsAgo(ws[1]))
         THEN ws[1]
         ELSE FirstMatch(Tail(ws), kind)

HasWord(ws, w) == \E i \in 1..Len(ws) : ws[i] = w

\* str.replace(sub, '').strip() at word granularity
RemoveWord(ws, w) == SelectSeq(ws, LAMBDA x : x # w)

Take(s, n) == SubSeq(s, 1, IF Len(s) < n THEN Len(s) ELSE n)

RECURSIVE Truncate(_, _)
\* full_text[:n], cut at a word boundary
Truncate(ws, n) ==
    IF ws = <<>> \/ WordLen(ws[1]) > n THEN <<>>
    ELSE <<ws[1]>> \o Truncate(Tail(ws), n - WordLen(ws[1]) - 1)

InSeq(x, s) == \E i \in 1..Len(s) : s[i] = x

\* --------------------------------------------------------------- elements
\* What BeautifulSoup answers for one element: its tag name, get_text(),
\* the texts of its h2/h3/h4/span/div/a descendants in document order, its
\* own href, the href of its first a[href] descendant, the src of its first
\* img, and whether reading it raises.
Element(name, raises, full_text, title_elements, own_href, link_href, img) ==
    [name |-> name, raises |-> raises, full_text |-> full_text,
     title_elements |-> title_elements, own_href |-> own_href,
     link_href |-> link_href, img |-> img]

Plain(name) == Element(name, FALSE, <<>>, <<>>, "", "", "")

ElemA == Element("a", FALSE, <<"Episode", "Trailer", "26:00", "1HrAgo", "Watch">>,
                 << <<"Episode", "Trailer", "26:00">> >>, "/ep1", "", "a.jpg")
\* no heading of its own: the title comes from the long words of its text,
\* and equals the title of ElemA
ElemB == Element("div", FALSE, <<"Episode", "Trailer", "Watch", "9:59">>,
                 <<>>, "", "/ep1b", "")
\* its title is nothing but a duration and an upload time; same link as ElemA
ElemC == Element("li", FALSE, <<"26:00", "1HrAgo", "Watch", "Watch">>,
                 << <<"Watch">>, <<"26:00", "1HrAgo">> >>, "", "/ep1", "")
\* too short to be an episode
ElemS == Element("div", FALSE, <<"Episode", "1">>,
                 << <<"Episode", "1">> >>, "", "/ep1", "")
\* reading it raises
ElemX == Element("section", TRUE, <<"Episode", "2", "26:00", "1HrAgo">>,
                 << <<"Episode", "2">> >>, "", "/ep2", "")

Elements == {ElemA, ElemB, ElemC, ElemS, ElemX}

\* ---------------------------------------------------- extract_episode_data
RECURSIVE FirstTitle(_)
FirstTitle(texts) ==
    IF texts = <<>> THEN <<>>
    ELSE IF texts[1] # <<>> /\ (HasWord(texts[1], "Episode") \/ TextLen(texts[1]) > MinTitleLen)
         THEN texts[1]
         ELSE FirstTitle(Tail(texts))

ChunkTitle(full_text) ==
    Take(SelectSeq(full_text, LAMBDA w : WordLen(w) > MinChunkLen), MaxTitleChunks)

RawTitle(element) ==
    LET title == FirstTitle(element.title_elements)
    IN  IF title # <<>> THEN title ELSE ChunkTitle(element.full_text)

CleanTitle(title, duration, upload_time) ==
    LET t1 == IF duration # "" /\ HasWord(title, duration)
              THEN RemoveWord(title, duration) ELSE title
    IN  IF upload_time # "" /\ HasWord(t1, upload_time)
        THEN RemoveWord(t1, upload_time) ELSE t1

EpisodeLink(element) ==
    IF element.name = "a" /\ element.own_href # ""
    THEN element.own_href
    ELSE element.link_href

EpisodeRecord(element) ==
    LET duration == FirstMatch(element.full_text, "duration")
        upload_time == FirstMatch(element.full_text, "ago")
        clean_title == CleanTitle(RawTitle(element), duration, upload_time)
    IN  [title |-> IF clean_title # <<>> THEN clean_title ELSE <<"Untitled Episode">>,
         duration |-> duration,
         upload_time |-> upload_time,
         link |-> EpisodeLink(element),
         thumbnail |-> element.img,
         raw_text |-> Truncate(element.full_text, RawTextLimit)]

Raised == [tag |-> "Raised"]

\* The try body of extract_episode_data: Raised stands for an exception
\* leaving the body.
ReadElement(element) ==
    IF element.raises THEN Raised
    ELSE IF TextLen(element.full_text) < MinTextLen THEN None
    ELSE EpisodeRecord(element)

\* extract_episode_data without its handler: the exception reaches the caller
extract_episode_data_uncaught(element) == ReadElement(element)

\* The value extract_episode_data returns: the except clause turns an
\* exception into None (after printing it).
extract_episode_data(element) ==
    LET result == ReadElement(element)
    IN  IF result = Raised THEN None ELSE result

\* -------------------------------------------------------------- text nodes
\* A text node is its stripped text and its chain of ancestors, parent first.
TextNode(text, ancestors) == [text |-> text, ancestors |-> ancestors]

NodeShort == TextNode(<<"9:59">>, <<ElemA>>)
NodePlain == TextNode(<<"Watch", "Trailer">>, <<ElemB>>)
NodeDeep == TextNode(<<"Episode", "1">>, <<Plain("span"), Plain("p"), Plain("b"), ElemC>>)
NodeIn(element) == TextNode(<<"Episode", "1", "26:00">>, <<Plain("span"), element>>)

TextNodes == {NodeShort, NodePlain, NodeDeep} \cup {NodeIn(e) : e \in Elements}

LooksLikeEpisode(text) ==
    \/ FirstMatch(text, "duration") # ""
    \/ FirstMatch(text, "ago") # ""
    \/ HasWord(text, "Episode")

RECURSIVE FindContainer(_, _)
\* for _ in range(3): the first of the next `levels` ancestors whose tag is a
\* container tag, or None
FindContainer(ancestors, levels) ==
    IF levels = 0 \/ ancestors = <<>> THEN None
    ELSE IF ancestors[1].name \in ContainerTags THEN ancestors[1]
    ELSE FindContainer(Tail(ancestors), levels - 1)

\* The element the text-pattern pass hands to extract_episode_data for this
\* text node, or None when the node is skipped.
Candidate(node) ==
    IF TextLen(node.text) < MinNodeLen THEN None
    ELSE IF ~LooksLikeEpisode(node.text) THEN None
    ELSE FindContainer(node.ancestors, ParentLevels)

\* ------------------------------------------------ extract_episodes_from_html
\* Progress of the collection loops: the records collected, the elements
\* handed to extract_episode_data (in call order), the elements whose error
\* was printed, and whether an exception is propagating.
EmptyAcc == [episodes |-> <<>>, attempted |-> <<>>, errors |-> <<>>, raised |-> FALSE]

\* episode_data = extract_episode_data(x)
\* if episode_data and episode_data not in episodes: episodes.append(...)
Visit(acc, element) ==
    LET episode_data == extract_episode_data(element) IN
    IF acc.raised THEN acc
    ELSE [episodes |-> IF episode_data \notin {None, Raised} /\ ~InSeq(episode_data, acc.episodes)
                       THEN Append(acc.episodes, episode_data)
                       ELSE acc.episodes,
          attempted |-> Append(acc.attempted, element),
          errors |-> IF element.raises /\ episode_data = None
                     THEN Append(acc.errors, element)
                     ELSE acc.errors,
          raised |-> episode_data = Raised]

RECURSIVE VisitAll(_, _)
VisitAll(acc, elements) ==
    IF elements = <<>> THEN acc
    ELSE VisitAll(Visit(acc, elements[1]), Tail(elements))

RECURSIVE Candidates(_)
\* the containers of the matching text nodes, in document order
Candidates(all_text) ==
    IF all_text = <<>> THEN <<>>
    ELSE LET parent == Candidate(all_text[1])
         IN  (IF parent = None THEN <<>> ELSE <<parent>>) \o Candidates(Tail(all_text))

\* Method 1: the text-pattern pass
Method1(all_text) == VisitAll(EmptyAcc, Candidates(all_text))

RECURSIVE UniqueFrom_unseen(_, _)
\* the deduplication loop never adding to seen_titles
UniqueFrom_unseen(episodes, seen_titles) ==
    IF episodes = <<>> THEN <<>>
    ELSE IF episodes[1].title # <<>> /\ episodes[1].title \notin seen_titles
         THEN <<episodes[1]>> \o UniqueFrom_unseen(Tail(episodes), seen_titles)
         ELSE UniqueFrom_unseen(Tail(episodes), seen_titles)

RECURSIVE UniqueFrom_keep_last(_, _)
\* the deduplication loop keeping the last record of a title, not the first
UniqueFrom_keep_last(episodes, seen_titles) ==
    IF episodes = <<>> THEN <<>>
    ELSE IF episodes[1].title # <<>>
            /\ \A i \in 2..Len(episodes) : episodes[i].title # episodes[1].title
         THEN <<episodes[1]>> \o UniqueFrom_keep_last(Tail(episodes), seen_titles)
         ELSE UniqueFrom_keep_last(Tail(episodes), seen_titles)

RECURSIVE UniqueFrom(_, _)
\* the title deduplication loop, with the titles seen so far
UniqueFrom(episodes, seen_titles) ==
    IF episodes = <<>> THEN <<>>
    ELSE IF episodes[1].title # <<>> /\ episodes[1].title \notin seen_titles
         THEN <<episodes[1]>> \o UniqueFrom(Tail(episodes), seen_titles \cup {episodes[1].title})
         ELSE UniqueFrom(Tail(episodes), seen_titles)

Reverse(s) == [i \in 1..Len(s) |-> s[Len(s) + 1 - i]]

\* unique_episodes.insert(0, ep) in place of append
UniqueEpisodes_reversed(episodes) == Reverse(UniqueFrom(episodes, {}))

UniqueEpisodes(episodes) == UniqueFrom(episodes, {})

\* the threshold applied to the deduplicated records
RunsMethod2_after_dedup(episodes) == Len(UniqueEpisodes(episodes)) < Method2Threshold

RunsMethod2(episodes) == Len(episodes) < Method2Threshold

RECURSIVE CardElements(_, _)
\* for selector in card_selectors: for card in soup.select(selector)[:10]
CardElements(cards, k) ==
    IF k > Len(card_selectors) THEN <<>>
    ELSE Take(cards[k], CardLimit) \o CardElements(cards, k + 1)

\* Method 2: the card-selector pass
Method2(acc, cards) ==
    IF RunsMethod2(acc.episodes) THEN VisitAll(acc, CardElements(cards, 1)) ELSE acc



\* ------------------------------------------------------------ navigation
NavLink(text, url) == [text |-> text, url |-> url, title |-> ""]

\* What the nav selectors find: for each selector that matches, the a[href]
\* links below the first match.
NavLayouts == { <<>>,
                << <<NavLink(<<"Watch">>, "/home"), NavLink(<<>>, "/x")>>,
                   <<NavLink(<<"Watch">>, "/home"), NavLink(<<"1">>, "/y")>> >> }

RECURSIVE Flatten(_)
Flatten(ss) == IF ss = <<>> THEN <<>> ELSE ss[1] \o Flatten(Tail(ss))

\* character count of link text: the words with no separator (strip=True)
RECURSIVE Chars(_)
Chars(ws) == IF ws = <<>> THEN 0 ELSE WordLen(ws[1]) + Chars(Tail(ws))

extract_navigation(layout) ==
    Take(SelectSeq(Flatten(layout), LAMBDA l : l.text # <<>> /\ Chars(l.text) > 1), NavLimit)

\* ------------------------------------------------------------------ inputs
RECURSIVE SeqsUpTo(_, _)
\* all sequences over S of length at most n
SeqsUpTo(S, n) ==
    IF n = 0 THEN {<<>>}
    ELSE LET shorter == SeqsUpTo(S, n - 1)
         IN  shorter \cup {Append(s, x) : s \in {t \in shorter : Len(t) = n - 1}, x \in S}

NoCards == [k \in 1..Len(card_selectors) |-> <<>>]

\* the elements the card selectors can match
CardCatalogue == {ElemB, ElemX}

\* The matches of the card selectors: none, one selector matching, or two
\* selectors matching the same element (an element of class "card item").
CardLayouts ==
    {[NoCards EXCEPT ![3] = c] : c \in SeqsUpTo(CardCatalogue, MaxCards)}
    \cup {[NoCards EXCEPT ![3] = <<e>>, ![4] = <<e>>] : e \in CardCatalogue}

\* What requests.get + raise_for_status can give: a request exception, or a
\* body: empty, a bare page with no title, text or links, or a full page.
NoResponse == [error |-> "", chars |-> 0, page |-> "empty"]

Responses == {[error |-> "ConnectionError", chars |-> 0, page |-> "empty"],
              [error |-> "Timeout", chars |-> 0, page |-> "empty"],
              [error |-> "HTTPError", chars |-> 9, page |-> "bare"],
              [error |-> "", chars |-> 0, page |-> "empty"],
              [error |-> "", chars |-> 4, page |-> "bare"],
              [error |-> "", chars |-> 999, page |-> "full"]}

\* what BeautifulSoup finds in the body
TitleOf(h) == IF h.page = "full" THEN "HITMaal" ELSE ""
AllTextsOf(h) == IF h.page = "full" THEN SeqsUpTo(TextNodes, MaxTextNodes) ELSE {<<>>}
CardLayoutsOf(h) == IF h.page = "full" THEN CardLayouts ELSE {NoCards}
NavLayoutsOf(h) == IF h.page = "full" THEN NavLayouts ELSE {<<>>}

NoExit == -1

\* ------------------------------------------- manifest resolver: the inputs
\* How one page target behaves when it is resolved: whether its session can
\* be created, how navigation ends, what the interaction probe meets,
\* whether the final scan raises, and whether any manifest URL is discovered.
Behaviour(open_ok, nav, probe, scan_ok, media) ==
    [open_ok |-> open_ok, nav |-> nav, probe |-> probe, scan_ok |-> scan_ok,
     media |-> media]

Behaviours ==
    {Behaviour(FALSE, "settled", "absent", TRUE, FALSE),
     Behaviour(TRUE, "error", "absent", TRUE, FALSE),
     Behaviour(TRUE, "settled", "clicked", FALSE, TRUE)}
    \cup {Behaviour(TRUE, n, "absent", TRUE, m) : n \in {"settled", "timeout"}, m \in BOOLEAN}
    \cup {Behaviour(TRUE, "timeout", p, TRUE, TRUE) : p \in {"clicked", "timeout"}}

\* ------------------------------------------------------------------- state
VARIABLES
    pc,              \* where main() is
    requests,        \* number of requests.get calls made
    response,        \* what the last request met
    html,            \* what get_page_content returned: None or the body
    page_title,
    all_text,        \* soup.find_all(string=True)
    cards,           \* soup.select(selector) for every card selector
    acc,             \* collection progress of extract_episodes_from_html
    method1_episodes,\* the records collected when Method 1 ended
    tried_method2,   \* the card pass was entered
    episodes,        \* what extract_episodes_from_html returned
    nav_items,
    files,           \* the files written to OUTPUT_FOLDER
    warned,          \* the "No episodes found" warning was printed
    exit_code,       \* NoExit while running
    targets,         \* resolver: the batch, one behaviour per page target
    engine,          \* resolver: "down", "up", "failed" or "shutdown"
    index,           \* resolver: position of the target being resolved
    state,           \* resolver: state of the current resolution, or "Idle"
    session,         \* resolver: "none", "open" or "closed"
    opened,          \* resolver: sessions opened so far
    closed,          \* resolver: sessions closed so far
    timed_out,       \* resolver: navigation of the current target timed out
    merged,          \* resolver: the current resolution found a manifest
    results,         \* resolver: the BatchResult outcomes
    batch_exit       \* resolver: exit code of the entry point

mvars == <<pc, requests, response, html, page_title, all_text, cards, acc,
           method1_episodes, tried_method2, episodes, nav_items, files, warned,
           exit_code>>

rvars == <<targets, engine, index, state, session, opened, closed, timed_out,
           merged, results, batch_exit>>

vars == <<mvars, rvars>>

MainInit ==
    /\ pc = "start"
    /\ requests = 0
    /\ response = NoResponse
    /\ html = None
    /\ page_title = ""
    /\ all_text = <<>>
    /\ cards = NoCards
    /\ acc = EmptyAcc
    /\ method1_episodes = <<>>
    /\ tried_method2 = FALSE
    /\ episodes = <<>>
    /\ nav_items = <<>>
    /\ files = {}
    /\ warned = FALSE
    /\ exit_code = NoExit

ResolverIdle ==
    /\ engine = "down"
    /\ index = 1
    /\ state = "Idle"
    /\ session = "none"
    /\ opened = 0
    /\ closed = 0
    /\ timed_out = FALSE
    /\ merged = FALSE
    /\ results = <<>>
    /\ batch_exit = NoExit

Init == MainInit /\ ResolverIdle /\ targets = <<>>

\* ------------------------------------------------------------------- main
\* get_page_content without raise_for_status: an error status gives its body
get_page_content_no_status_check(r) ==
    IF r.error \in {"ConnectionError", "Timeout"} THEN None
    ELSE [tag |-> "html", chars |-> r.chars, page |-> r.page]

\* html = get_page_content(BASE_URL): any RequestException (raise_for_status
\* included) gives None
get_page_content(r) ==
    IF r.error # "" THEN None ELSE [tag |-> "html", chars |-> r.chars, page |-> r.page]

\* get_page_content retrying a failed request twice more
GetPageContent_retry ==
    /\ pc = "start"
    /\ \E r \in Responses :
          /\ response' = r
          /\ html' = get_page_content(r)
          /\ requests' = requests + (IF r.error # "" THEN 3 ELSE 1)
    /\ pc' = "fetched"
    /\ UNCHANGED <<page_title, all_text, cards, acc, method1_episodes, tried_method2,
                   episodes, nav_items, files, warned, exit_code>>
    /\ UNCHANGED rvars

\* one call of get_page_content: one request
GetPageContent ==
    /\ pc = "start"
    /\ \E r \in Responses :
          /\ response' = r
          /\ html' = get_page_content(r)
    /\ requests' = requests + 1
    /\ pc' = "fetched"
    /\ UNCHANGED <<page_title, all_text, cards, acc, method1_episodes, tried_method2,
                   episodes, nav_items, files, warned, exit_code>>
    /\ UNCHANGED rvars

\* `not html`: None or the empty string
NoContent(h) == IF h = None THEN TRUE ELSE h.chars = 0

\* if not html: return
ExitNoContent ==
    /\ pc = "fetched"
    /\ NoContent(html)
    /\ pc' = "done"
    /\ exit_code' = 0
    /\ UNCHANGED <<requests, response, html, page_title, all_text, cards, acc,
                   method1_episodes, tried_method2, episodes, nav_items, files, warned>>
    /\ UNCHANGED rvars

\* soup = BeautifulSoup(html); page_title = soup.title.string or "No title"
ParsePage ==
    /\ pc = "fetched"
    /\ ~NoContent(html)
    /\ page_title' = IF TitleOf(html) # "" THEN TitleOf(html) ELSE "No title"
    /\ pc' = "parsed"
    /\ UNCHANGED <<requests, response, html, all_text, cards, acc, method1_episodes,
                   tried_method2, episodes, nav_items, files, warned, exit_code>>
    /\ UNCHANGED rvars

\* extract_episodes_from_html, Method 1
TextPatternPass ==
    /\ pc = "parsed"
    /\ \E nodes \in AllTextsOf(html) :
          /\ all_text' = nodes
          /\ LET collected == Method1(nodes)
             IN  /\ acc' = collected
                 /\ IF collected.raised
                    THEN pc' = "crashed" /\ exit_code' = 1
                    ELSE pc' = "method1" /\ UNCHANGED exit_code
    /\ UNCHANGED <<requests, response, html, page_title, cards, method1_episodes,
                   tried_method2, episodes, nav_items, files, warned>>
    /\ UNCHANGED rvars

\* extract_episodes_from_html, Method 2
CardPass ==
    /\ pc = "method1"
    /\ method1_episodes' = acc.episodes
    /\ tried_method2' = RunsMethod2(acc.episodes)
    /\ IF RunsMethod2(acc.episodes)
       THEN \E layout \in CardLayoutsOf(html) :
               /\ cards' = layout
               /\ LET collected == Method2(acc, layout)
                  IN  /\ acc' = collected
                      /\ IF collected.raised
                         THEN pc' = "crashed" /\ exit_code' = 1
                         ELSE pc' = "method2" /\ UNCHANGED exit_code
       ELSE /\ acc' = Method2(acc, cards)
            /\ pc' = "method2"
            /\ UNCHANGED <<cards, exit_code>>
    /\ UNCHANGED <<requests, response, html, page_title, all_text, episodes,
                   nav_items, files, warned>>
    /\ UNCHANGED rvars

\* extract_episodes_from_html, title deduplication and return
DeduplicateTitles ==
    /\ pc = "method2"
    /\ episodes' = UniqueEpisodes(acc.episodes)
    /\ pc' = "extracted"
    /\ UNCHANGED <<requests, response, html, page_title, all_text, cards, acc,
                   method1_episodes, tried_method2, nav_items, files, warned, exit_code>>
    /\ UNCHANGED rvars

\* nav_items = extract_navigation(soup)
ExtractNavigation ==
    /\ pc = "extracted"
    /\ \E layout \in NavLayoutsOf(html) :
          nav_items' = extract_navigation(layout)
    /\ pc' = "navigated"
    /\ UNCHANGED <<requests, response, html, page_title, all_text, cards, acc,
                   method1_episodes, tried_method2, episodes, files, warned, exit_code>>
    /\ UNCHANGED rvars

\* save_results called only when there are episodes
save_results_nonempty_only(eps, nav, metadata) ==
    IF eps = <<>> THEN {}
    ELSE {[name |-> "json", metadata |-> metadata, episodes |-> eps, navigation |-> nav,
           total_episodes |-> Len(eps)],
          [name |-> "txt", total_episodes |-> Len(eps), navigation |-> nav, episodes |-> eps]}

\* the two files save_results writes
save_results(eps, nav, metadata) ==
    {[name |-> "json", metadata |-> metadata, episodes |-> eps, navigation |-> nav,
      total_episodes |-> Len(eps)],
     [name |-> "txt", total_episodes |-> Len(eps), navigation |-> nav, episodes |-> eps]}

\* the results summary, save_results and the normal return of main
SaveResults ==
    /\ pc = "navigated"
    /\ warned' = (episodes = <<>>)
    /\ files' = files \cup save_results(episodes, nav_items, [title |-> page_title])
    /\ pc' = "done"
    /\ exit_code' = 0
    /\ UNCHANGED <<requests, response, html, page_title, all_text, cards, acc,
                   method1_episodes, tried_method2, episodes, nav_items>>
    /\ UNCHANGED rvars

Next ==
    \/ GetPageContent
    \/ ExitNoContent
    \/ ParsePage
    \/ TextPatternPass
    \/ CardPass
    \/ DeduplicateTitles
    \/ ExtractNavigation
    \/ SaveResults

Spec == Init /\ [][Next]_vars

\* ------------------------------------------------- manifest resolver (4.5)
\* The batch coordinator and the resolver state machine, as the design
\* sections 4.1, 4.5, 4.6 and 7 describe them.
ResolverInit == MainInit /\ ResolverIdle /\ targets \in SeqsUpTo(Behaviours, MaxTargets)

Current == targets[index]

\* leaving Navigating on a timeout: left as a failure
AfterNavigation_hard_timeout(nav) == IF nav = "settled" THEN "Observing" ELSE "Failed"

\* Navigating -> Observing regardless of whether navigation settled; only a
\* non-timeout exception fails the resolution
AfterNavigation(nav) == IF nav = "error" THEN "Failed" ELSE "Observing"

\* the Failed path forgetting the session
ReleaseOnFailure_leak(s) == s

\* Session.close() on the Failed path: identical to the Done path
ReleaseOnFailure(s) == IF s = "open" THEN "closed" ELSE s

Released(before, after) == IF before = "open" /\ after = "closed" THEN 1 ELSE 0

\* Success if the merged set is non-empty, otherwise NotFound
Classify(found) == IF found THEN "Success" ELSE "NotFound"

\* the browser engine is launched once per batch; a launch failure is the
\* BatchStartError
LaunchEngine ==
    /\ engine = "down"
    /\ \E ok \in BOOLEAN :
          IF ok THEN engine' = "up" /\ UNCHANGED batch_exit
                ELSE engine' = "failed" /\ batch_exit' = 1
    /\ UNCHANGED <<targets, index, state, session, opened, closed, timed_out,
                   merged, results>>
    /\ UNCHANGED mvars

\* the coordinator hands the next target to the resolver
BeginResolution ==
    /\ engine = "up"
    /\ state = "Idle"
    /\ index <= Len(targets)
    /\ state' = "Init"
    /\ session' = "none"
    /\ timed_out' = FALSE
    /\ merged' = FALSE
    /\ UNCHANGED <<targets, engine, index, opened, closed, results, batch_exit>>
    /\ UNCHANGED mvars

\* Init -> Navigating: open the session, attach the observer, navigate
OpenSession ==
    /\ state = "Init"
    /\ IF Current.open_ok
       THEN /\ session' = "open"
            /\ opened' = opened + 1
            /\ state' = "Navigating"
       ELSE /\ state' = "Failed"
            /\ UNCHANGED <<session, opened>>
    /\ UNCHANGED <<targets, engine, index, closed, timed_out, merged, results,
                   batch_exit>>
    /\ UNCHANGED mvars

\* Navigating -> Observing, or -> Failed on a non-timeout exception
Navigate ==
    /\ state = "Navigating"
    /\ state' = AfterNavigation(Current.nav)
    /\ timed_out' = (Current.nav = "timeout")
    /\ IF AfterNavigation(Current.nav) = "Failed"
       THEN /\ session' = ReleaseOnFailure(session)
            /\ closed' = closed + Released(session, ReleaseOnFailure(session))
       ELSE UNCHANGED <<session, closed>>
    /\ UNCHANGED <<targets, engine, index, opened, merged, results, batch_exit>>
    /\ UNCHANGED mvars

\* Observing -> Interacting after the settle delay
Observe ==
    /\ state = "Observing"
    /\ state' = "Interacting"
    /\ UNCHANGED <<targets, engine, index, session, opened, closed, timed_out,
                   merged, results, batch_exit>>
    /\ UNCHANGED mvars

\* Interacting -> Scanning, unconditionally: a control found and clicked, no
\* control, or a probe timeout
Interact ==
    /\ state = "Interacting"
    /\ state' = "Scanning"
    /\ UNCHANGED <<targets, engine, index, session, opened, closed, timed_out,
                   merged, results, batch_exit>>
    /\ UNCHANGED mvars

\* Scanning -> Done: merge, close the session, classify; or -> Failed when
\* the scan raises
Scan ==
    /\ state = "Scanning"
    /\ IF Current.scan_ok
       THEN /\ state' = "Done"
            /\ merged' = Current.media
            /\ session' = "closed"
            /\ closed' = closed + 1
       ELSE /\ state' = "Failed"
            /\ session' = ReleaseOnFailure(session)
            /\ closed' = closed + Released(session, ReleaseOnFailure(session))
            /\ UNCHANGED merged
    /\ UNCHANGED <<targets, engine, index, opened, timed_out, results, batch_exit>>
    /\ UNCHANGED mvars

\* the coordinator records the outcome of the target and moves on
RecordOutcome ==
    /\ state \in {"Done", "Failed"}
    /\ results' = Append(results, IF state = "Failed" THEN "Error" ELSE Classify(merged))
    /\ index' = index + 1
    /\ state' = "Idle"
    /\ UNCHANGED <<targets, engine, session, opened, closed, timed_out, merged,
                   batch_exit>>
    /\ UNCHANGED mvars

\* the batch loop exits: the engine is shut down, the entry point returns 0
FinishBatch ==
    /\ engine = "up"
    /\ state = "Idle"
    /\ index > Len(targets)
    /\ engine' = "shutdown"
    /\ batch_exit' = 0
    /\ UNCHANGED <<targets, index, state, session, opened, closed, timed_out,
                   merged, results>>
    /\ UNCHANGED mvars

ResolverNext ==
    \/ LaunchEngine
    \/ BeginResolution
    \/ OpenSession
    \/ Navigate
    \/ Observe
    \/ Interact
    \/ Scan
    \/ RecordOutcome
    \/ FinishBatch

SpecResolver == ResolverInit /\ [][ResolverNext]_vars

\* ============================================================== properties
\* extract_episodes_from_html has passed Method 1 (or died in it)
Ran == ~NoContent(html) /\ pc \notin {"start", "fetched", "parsed"}

\* extract_episodes_from_html has passed Method 2
AfterCards == ~NoContent(html) /\ pc \in {"method2", "extracted", "navigated", "done"}

\* extract_episodes_from_html has returned
Returned == ~NoContent(html) /\ pc \in {"extracted", "navigated", "done"}

Extractable(element) == ~element.raises /\ TextLen(element.full_text) >= MinTextLen

\* per element: the record it gives when it can be read and is long enough
RecordOf ==
    [e \in Elements |-> IF Extractable(e) THEN EpisodeRecord(e) ELSE None]

\* per element: what extract_episode_data answers for it
OutcomeOf == [e \in Elements |-> extract_episode_data(e)]

\* per text node: the element Method 1 examines for it, or None
CandidateOf == [n \in TextNodes |-> Candidate(n)]

\* the elements Method 1 must examine, in document order
ExpectedCandidates ==
    LET examined == SelectSeq(all_text, LAMBDA n : CandidateOf[n] # None)
    IN  [i \in 1..Len(examined) |-> CandidateOf[examined[i]]]

\* the elements the two passes must hand to extract_episode_data, in order
ExpectedAttempts ==
    ExpectedCandidates \o (IF tried_method2 THEN CardElements(cards, 1) ELSE <<>>)

IsErrorOutcome(outcome) == "error" \in DOMAIN outcome

RECURSIVE IsSubsequence(_, _)
IsSubsequence(s, t) ==
    IF s = <<>> THEN TRUE
    ELSE IF t = <<>> THEN FALSE
    ELSE IF s[1] = t[1] THEN IsSubsequence(Tail(s), Tail(t))
    ELSE IsSubsequence(s, Tail(t))

\* what extract_episode_data answered for every element handed to it
Outcomes == [i \in 1..Len(acc.attempted) |-> OutcomeOf[acc.attempted[i]]]

C3_UniqueByLink ==
    Returned => /\ \A i, j \in 1..Len(episodes) :
                      i # j => episodes[i].link # episodes[j].link
                /\ \A k \in 1..Len(acc.episodes) :
                      \E i \in 1..Len(episodes) : episodes[i].link = acc.episodes[k].link

\* C3 as amended: the returned list is deduplicated by title: no two entries
\* share a title, and collected records with different titles are both kept
\* whatever their links.
C3_UniqueByTitle ==
    Returned => /\ \A i, j \in 1..Len(episodes) :
                      i # j => episodes[i].title # episodes[j].title
                /\ \A k \in 1..Len(acc.episodes) :
                      \E i \in 1..Len(episodes) : episodes[i].title = acc.episodes[k].title

\* two returned entries share a link, and a record with a link of its own was
\* dropped for its title
C3_Witness ==
    /\ Returned
    /\ \E i, j \in 1..Len(episodes) : i # j /\ episodes[i].link = episodes[j].link
    /\ \E k \in 1..Len(acc.episodes) :
          \A i \in 1..Len(episodes) : episodes[i].link # acc.episodes[k].link

C7_FailedFetchRetried ==
    (pc # "start" /\ html = None) => requests > 1

\* C7 as amended: get_page_content makes exactly one request and never
\* retries: it ends after one attempt with the body or with None.
C7_SingleAttempt ==
    /\ pc = "start" => requests = 0
    /\ pc # "start" =>
          /\ requests = 1
          /\ IF html = None THEN response.error # "" ELSE html.tag = "html"

\* a request timed out and the run ended after that one request
C7_Witness ==
    /\ pc = "done"
    /\ response.error = "Timeout"
    /\ html = None
    /\ requests = 1

\* ---- C8
\* C8: when the request fails (connection error, timeout or error status)
\* get_page_content returns None and main stops there: nothing is parsed,
\* extracted or saved.
C8_FetchFailureStopsRun ==
    (pc # "start" /\ response.error # "") =>
        /\ html = None
        /\ pc \in {"fetched", "done"}
        /\ page_title = ""
        /\ all_text = <<>>
        /\ acc = EmptyAcc
        /\ episodes = <<>>
        /\ nav_items = <<>>
        /\ files = {}

\* an error status ended the run with no file written
C8_Witness ==
    /\ pc = "done"
    /\ response.error = "HTTPError"
    /\ html = None
    /\ files = {}
    /\ exit_code = 0

\* ---- C9
\* positions of the collected records that carry the first occurrence of a
\* non-empty title
FirstPositions(s) ==
    {i \in 1..Len(s) : s[i].title # <<>> /\ \A j \in 1..(i - 1) : s[j].title # s[i].title}

\* the k-th smallest position of P
Nth(P, k) == CHOOSE i \in P : Cardinality({j \in P : j <= i}) = k

\* C9: every returned episode has a non-empty title, no two share a title,
\* and the returned list is the collected list restricted to the first
\* occurrence of each title, in collection order.
C9_FirstOccurrencePerTitle ==
    Returned =>
        /\ \A i \in 1..Len(episodes) : episodes[i].title # <<>>
        /\ \A i, j \in 1..Len(episodes) :
              episodes[i].title = episodes[j].title => i = j
        /\ Len(episodes) = Cardinality(FirstPositions(acc.episodes))
        /\ \A k \in 1..Len(episodes) :
              episodes[k] = acc.episodes[Nth(FirstPositions(acc.episodes), k)]

\* a record in the middle was dropped for its title, a later one was kept
C9_Witness ==
    /\ Returned
    /\ \E k \in 1..Len(acc.episodes) :
          /\ ~InSeq(acc.episodes[k], episodes)
          /\ k < Len(acc.episodes)
          /\ InSeq(acc.episodes[Len(acc.episodes)], episodes)

\* ---- C10
\* the distinct records the candidates of Method 1 give
Method1Records ==
    {OutcomeOf[ExpectedCandidates[i]] : i \in 1..Len(ExpectedCandidates)} \ {None}

\* C10: Method 2 runs exactly when Method 1 collected fewer than 3 records
\* (counted before title deduplication); it leaves the records of Method 1
\* in place and only appends card records not collected before.
C10_CardFallback ==
    AfterCards =>
        LET matched == {e \in CardCatalogue : InSeq(e, CardElements(cards, 1))}
        IN  /\ Len(method1_episodes) = Cardinality(Method1Records)
            /\ tried_method2 <=> (Len(method1_episodes) < Method2Threshold)
            /\ Len(method1_episodes) <= Len(acc.episodes)
            /\ SubSeq(acc.episodes, 1, Len(method1_episodes)) = method1_episodes
            /\ ~tried_method2 => acc.episodes = method1_episodes
            /\ \A i \in (Len(method1_episodes) + 1)..Len(acc.episodes) :
                  /\ \A j \in 1..(i - 1) : acc.episodes[j] # acc.episodes[i]
                  /\ \E e \in matched : acc.episodes[i] = OutcomeOf[e]

\* Method 2 ran after Method 1 had collected something, appended one card
\* record and skipped a card whose record was already collected
C10_Witness ==
    /\ pc = "method2"
    /\ tried_method2
    /\ method1_episodes # <<>>
    /\ Len(acc.episodes) = Len(method1_episodes) + 1
    /\ Len(CardElements(cards, 1)) = 2

C5_TimeoutIsSoft ==
    /\ (timed_out /\ state = "Failed") => ~Current.scan_ok
    /\ (timed_out /\ state # "Idle") =>
          state \in {"Observing", "Interacting", "Scanning", "Done", "Failed"}
    /\ \A i \in 1..Len(results) :
          (targets[i].open_ok /\ targets[i].nav = "timeout" /\ targets[i].scan_ok) =>
              results[i] = Classify(targets[i].media)

\* a target whose navigation timed out was recorded as Success
C5_Witness ==
    /\ Len(results) >= 1
    /\ targets[1].nav = "timeout"
    /\ results[1] = "Success"
    /\ timed_out

====
